---- MODULE Spec2Model ----
(***************************************************************************)
(* Verification model of the taskflow-cpp-template repository.            *)
(*                                                                         *)
(*  Part I  : mylib::SimplePipeline (the primer's two-task pipeline): an   *)
(*            atomic counter, Run / GetCounter / Reset, and the part of    *)
(*            tf::Executor / tf::Taskflow that Run uses (emplace, precede, *)
(*            run(...).wait(), worker threads).                            *)
(*  Part II : mylib::Greet, mylib::Add and mylib::Factorial with their C++  *)
(*            integer widths (int is 32 bit two's complement,              *)
(*            std::uint64_t is 64 bit unsigned), and PrintGreeting.        *)
(***************************************************************************)
EXTENDS Integers, Sequences, FiniteSets, TLC

\* ------------------------------------------------------------------ bounds
\* Worker threads of the tf::Executor that each Run constructs.
NumWorkers == 2
\* Run calls started on one SimplePipeline object.
MaxRuns == 3
\* Factorial is called with num in -MaxNum .. MaxNum and the two smallest ints.
MaxNum == 22
\* Add is called with operands in -MaxOperand .. MaxOperand and with the
\* EdgeWidth + 1 ints at each end of the range of int.
MaxOperand == 4
EdgeWidth == 1
\* Greet is called with names of at most MaxNameLen characters.
MaxNameLen == 2
\* Library calls made one after the other in SpecCalls.
MaxCalls == 3
\* The counter values a run under study starts from: 0 .. MaxStart, and the
\* two values at which fetch_add reaches or passes the largest int.
MaxStart == 2
\* The threads that call one SimplePipeline at the same time.
NumThreads == 2
\* Tasks emplaced by the AtomicCounter pattern (100 in the test).
NumCounterTasks == 3
\* Invocations of cmake --build . --target coverage in one build directory.
MaxInvocations == 2

\* --------------------------------------------------------------- variables
VARIABLES
    counter_,   \* std::atomic<int> SimplePipeline::counter_
    pc,         \* pc[c]: where caller thread c is inside the SimplePipeline API
    tstate,     \* tstate[c][t]: state of task t in the taskflow of c's Run
    join,       \* join[c][t]: predecessors of t that have not finished yet
    wtask,      \* wtask[c][w]: the task worker w of c's executor is running
    ret,        \* ret[c]: the value the last Run / GetCounter of c returned
    lastOp,     \* lastOp[c]: the last API call c completed
    prevOp,     \* prevOp[c]: the API call c completed before lastOp[c]
    runsSince,  \* Run calls completed since construction or the last Reset
    runsEver,   \* Run calls started since construction
    variant,    \* the version of SimplePipeline::Run the object runs
    start,      \* the value of counter_ when the calls under study begin
    firstOut,   \* what Run returned and left on the first of two objects
    role,       \* role[c]: the calls thread c makes in SpecConc
    tname,      \* tname[c][t]: the name given to task t with .name(...)
    libPc,      \* Part II: position inside the library call
    libFn,      \* Part II: the library function called
    lhs, rhs,   \* Part II: Add's arguments
    num,        \* Part II: Factorial's argument
    idx,        \* Part II: Factorial's loop variable
    result,     \* Part II: Factorial's accumulator, a std::uint64_t
    factOut,    \* Part II: the std::uint64_t Factorial returned
    addOut,     \* Part II: what the call Add(lhs, rhs) produced
    name,       \* Part II: Greet's argument, a string as its characters
    greetOut,   \* Part II: the std::string Greet returned
    printOut,   \* Part II: how the call PrintGreeting() ended
    calls,      \* Part II: library calls started so far
    probe,      \* Part II: the first library call completed, with its result
    printedSince, \* Part II: a PrintGreeting call completed after the probe
    pat,        \* Part IX: the Taskflow pattern whose graph is run
    gpc,        \* Part IX: where the test's thread is: before run, waiting, after
    gstate,     \* Part IX: gstate[t]: task t is waiting, ready or running
    gjoin,      \* Part IX: gjoin[t]: predecessors t still waits for
    gwork,      \* Part IX: gwork[w]: the task worker w runs and its position
    shared,     \* Part IX: the variable the tasks share (state / counter)
    obs,        \* Part IX: obs[t]: the values task t loaded, in order
    execs,      \* Part IX: execs[t]: times task t's callable has run
    exc,        \* Part IX: a task's exception is held by the run
    covTool,    \* Part X: the coverage tool chain, lcov or llvm-cov
    covPc,      \* Part X: the command of the coverage target to run next
    inv,        \* Part X: invocations of the coverage target so far
    raw,        \* Part X: test runs recorded in the .gcda / .profraw data
    merged,     \* Part X: test runs in coverage.info / default.profdata
    filtered,   \* Part X: test runs in coverage.info.cleaned
    report,     \* Part X: test runs shown by the HTML report
    reportBy,   \* Part X: the invocation that generated the HTML report
    tested,     \* Part X: the invocations whose ctest command has run
    log         \* Part X: the commands the current invocation has run

envVars  == <<variant, start, firstOut, role, tname>>
pipeVars == <<counter_, pc, tstate, join, wtask, ret, lastOp, prevOp,
              runsSince, runsEver, envVars>>
callVars == <<calls, probe, printedSince>>
patVars  == <<pat, gpc, gstate, gjoin, gwork, shared, obs, execs, exc>>
covVars  == <<covTool, covPc, inv, raw, merged, filtered, report, reportBy,
              tested, log>>
extVars  == <<patVars, covVars>>
libVars  == <<libPc, libFn, lhs, rhs, num, idx, result, factOut, addOut,
              name, greetOut, printOut, callVars, extVars>>
vars     == <<pipeVars, libVars>>

\* ------------------------------------------------------- C++ integer types
\* int: INT_MAX and INT_MIN of the 32 bit two's complement int.
IntMax == 2147483647
IntMin == -2147483647 - 1

(***************************************************************************)
(* Part I.  SimplePipeline                                                 *)
(***************************************************************************)

Workers == 1..NumWorkers

\* The tasks Run emplaces: task_a named "TaskA", task_b named "TaskB".
TasksOnlyA == {"TaskA"}
Tasks == {"TaskA", "TaskB"}

\* task_a.precede(task_b)
PrecedesNothing == {}
PrecedesCycle == {<<"TaskA", "TaskB">>, <<"TaskB", "TaskA">>}
Precedes == {<<"TaskA", "TaskB">>}

\* The GREEN phase's Run: the same two tasks, task_a and task_b, with
\* task_a.precede(task_b), and no .name(...) call.
GreenTasksOnlyA == {"TaskA"}
GreenTasks == {"TaskA", "TaskB"}
GreenPrecedes == {<<"TaskA", "TaskB">>}

\* The tasks, the dependencies and the task names of each version of Run:
\* "refactor" is the final code, "green" the GREEN phase's, and "noprecede"
\* the final code with the line task_a.precede(task_b) left out.
TasksOf(v) == IF v = "green" THEN GreenTasks ELSE Tasks
PrecedesOf(v) ==
    CASE v = "green" -> GreenPrecedes
      [] v = "noprecede" -> {}
      [] OTHER -> Precedes
NameOf(v, t) == IF v = "green" THEN "" ELSE t

Predecessors(t) == {u \in TasksOf(variant) : <<u, t>> \in PrecedesOf(variant)}
Successors(t)   == {u \in TasksOf(variant) : <<t, u>> \in PrecedesOf(variant)}

\* SimplePipeline() : counter_(0)
CounterInit == 0

\* counter_ is a std::atomic<int>: every operation on it is atomic.
CounterIsPlainInt == FALSE
CounterIsAtomic == TRUE

\* counter_.fetch_add(1, relaxed): the new value; atomic arithmetic wraps.
fetch_add_as_store(v) == 1
fetch_add(v) == IF v = IntMax THEN IntMin ELSE v + 1

\* counter_.load(relaxed) in GetCounter, the value GetCounter returns.
GetCounterStub(v) == 0 - 1
GetCounterValue(v) == v

\* What GetCounter leaves in counter_ (it is const: a load only).
GetCounterIncrements(v) == fetch_add(v)
GetCounterLeaves(v) == v

\* counter_.store(0, relaxed) in Reset: the value Reset leaves in counter_.
ResetStub(v) == v
ResetStoresOne(v) == 1
ResetValue(v) == 0

\* The Phase 4.4 stubs: counter() returns -1 and Reset() has an empty body.
StubCounter(v) == 0 - 1
StubResetStoresZero(v) == 0
StubReset(v) == v

\* What counter() / GetCounter() returns and what Reset() leaves in counter_
\* in version ver of the class: "stub" is Phase 4.4, every other the final
\* code.
GetCounterIn(ver, v) == IF ver = "stub" THEN StubCounter(v) ELSE GetCounterValue(v)
ResetIn(ver, v) == IF ver = "stub" THEN StubReset(v) ELSE ResetValue(v)

\* executor.run(taskflow).wait(): wait() returns once every task has finished.
NoWait(c) == TRUE
WaitDone(c) == \A t \in TasksOf(variant) : tstate[c][t] = "done"

NoTaskflow == [t \in {"TaskA", "TaskB"} |-> "none"]
NoJoin     == [t \in {"TaskA", "TaskB"} |-> 0]
NoNames    == [t \in {"TaskA", "TaskB"} |-> ""]
NoOut      == [variant |-> "none", ret |-> 0, counter |-> 0]
IdleWorkers == [w \in Workers |-> "idle"]

Callers == DOMAIN pc

PipelineInit ==
    /\ counter_ = CounterInit
    /\ pc = [c \in {"main"} |-> "idle"]
    /\ tstate = [c \in {"main"} |-> NoTaskflow]
    /\ join = [c \in {"main"} |-> NoJoin]
    /\ wtask = [c \in {"main"} |-> IdleWorkers]
    /\ ret = [c \in {"main"} |-> 0]
    /\ lastOp = [c \in {"main"} |-> "none"]
    /\ prevOp = [c \in {"main"} |-> "none"]
    /\ runsSince = 0
    /\ runsEver = 0
    /\ variant = "refactor"
    /\ start = CounterInit
    /\ firstOut = NoOut
    /\ role = [c \in {"main"} |-> "any"]
    /\ tname = [c \in {"main"} |-> NoNames]

\* A library call with its arguments and what it produced.
CallRecord(fn, l, r, n, nm, add, fact, greet, print) ==
    [fn |-> fn, lhs |-> l, rhs |-> r, num |-> n, name |-> nm,
     addOut |-> add, factOut |-> fact, greetOut |-> greet, printOut |-> print]

NoAddOut == [kind |-> "none", value |-> 0]
NoCall == CallRecord("none", 0, 0, 0, <<>>, NoAddOut, <<0, 0, 0, 0>>, <<>>, "none")

\* No Taskflow pattern is run.
PatOff ==
    /\ pat = "none" /\ gpc = "off"
    /\ gstate = <<>> /\ gjoin = <<>> /\ gwork = <<>>
    /\ shared = 0 /\ obs = <<>> /\ execs = <<>> /\ exc = FALSE

\* The coverage target is not built.
CovOff ==
    /\ covTool = "none" /\ covPc = 0 /\ inv = 0
    /\ raw = {} /\ merged = {} /\ filtered = {} /\ report = {}
    /\ reportBy = 0 /\ tested = {} /\ log = <<>>

ExtOff == PatOff /\ CovOff

\* No library call is made in the pipeline's specification.
LibIdle ==
    /\ libPc = "off"
    /\ libFn = "none"
    /\ lhs = 0 /\ rhs = 0 /\ num = 0 /\ idx = 0
    /\ result = <<0, 0, 0, 0>>
    /\ factOut = <<0, 0, 0, 0>>
    /\ addOut = [kind |-> "none", value |-> 0]
    /\ name = <<>> /\ greetOut = <<>> /\ printOut = "none"
    /\ calls = 0 /\ probe = NoCall /\ printedSince = FALSE

LibOff == ExtOff /\ LibIdle

Init == PipelineInit /\ LibOff

Completed(c, op) ==
    /\ prevOp' = [prevOp EXCEPT ![c] = lastOp[c]]
    /\ lastOp' = [lastOp EXCEPT ![c] = op]

\* Run, up to executor.run: the executor and the taskflow are constructed, the
\* two tasks emplaced and named, and task_a.precede(task_b) recorded.
RunBuild(c) ==
    /\ pc[c] = "idle"
    /\ runsEver < MaxRuns
    /\ pc' = [pc EXCEPT ![c] = "built"]
    /\ tstate' = [tstate EXCEPT ![c] =
                    [t \in DOMAIN NoTaskflow |->
                        IF t \in TasksOf(variant) THEN "waiting" ELSE "none"]]
    /\ join' = [join EXCEPT ![c] =
                    [t \in DOMAIN NoJoin |-> Cardinality(Predecessors(t))]]
    /\ wtask' = [wtask EXCEPT ![c] = IdleWorkers]
    /\ runsEver' = runsEver + 1
    /\ tname' = [tname EXCEPT ![c] =
                    [t \in DOMAIN NoNames |->
                        IF t \in TasksOf(variant) THEN NameOf(variant, t)
                        ELSE ""]]
    /\ UNCHANGED <<counter_, ret, lastOp, prevOp, runsSince, libVars,
                   variant, start, firstOut, role>>

\* executor.run(taskflow): the tasks without predecessors are scheduled.
RunSubmit(c) ==
    /\ pc[c] = "built"
    /\ pc' = [pc EXCEPT ![c] = "waiting"]
    /\ tstate' = [tstate EXCEPT ![c] =
                    [t \in DOMAIN NoTaskflow |->
                        IF tstate[c][t] = "waiting" /\ join[c][t] = 0
                        THEN "ready" ELSE tstate[c][t]]]
    /\ UNCHANGED <<counter_, join, wtask, ret, lastOp, prevOp, runsSince,
                   runsEver, libVars, envVars>>

\* A worker thread of the executor takes a scheduled task.
WorkerTake(c, w, t) ==
    /\ pc[c] \in {"waiting", "load", "joining"}
    /\ wtask[c][w] = "idle"
    /\ tstate[c][t] = "ready"
    /\ wtask' = [wtask EXCEPT ![c][w] = t]
    /\ tstate' = [tstate EXCEPT ![c][t] = "running"]
    /\ UNCHANGED <<counter_, pc, join, ret, lastOp, prevOp, runsSince,
                   runsEver, libVars, envVars>>

\* The task's callable: counter_.fetch_add(1, std::memory_order_relaxed).
TaskInvoke(c, w) ==
    /\ wtask[c][w] # "idle"
    /\ tstate[c][wtask[c][w]] = "running"
    /\ counter_' = fetch_add(counter_)
    /\ tstate' = [tstate EXCEPT ![c][wtask[c][w]] = "executed"]
    /\ UNCHANGED <<pc, join, wtask, ret, lastOp, prevOp, runsSince, runsEver,
                   libVars, envVars>>

\* The worker finishes the task: each successor loses one unfinished
\* predecessor and is scheduled when none is left.
WorkerFinish(c, w) ==
    /\ wtask[c][w] # "idle"
    /\ tstate[c][wtask[c][w]] = "executed"
    /\ LET t == wtask[c][w]
           left == [u \in DOMAIN NoJoin |->
                      IF u \in Successors(t) THEN join[c][u] - 1
                      ELSE join[c][u]]
       IN /\ join' = [join EXCEPT ![c] = left]
          /\ tstate' = [tstate EXCEPT ![c] =
                          [u \in DOMAIN NoTaskflow |->
                              IF u = t THEN "done"
                              ELSE IF u \in Successors(t) /\ left[u] = 0
                                      /\ tstate[c][u] = "waiting"
                                   THEN "ready"
                                   ELSE tstate[c][u]]]
    /\ wtask' = [wtask EXCEPT ![c][w] = "idle"]
    /\ UNCHANGED <<counter_, pc, ret, lastOp, prevOp, runsSince, runsEver,
                   libVars, envVars>>

\* .wait() returns.
RunWait(c) ==
    /\ pc[c] = "waiting"
    /\ WaitDone(c)
    /\ pc' = [pc EXCEPT ![c] = "load"]
    /\ UNCHANGED <<counter_, tstate, join, wtask, ret, lastOp, prevOp,
                   runsSince, runsEver, libVars, envVars>>

\* return counter_.load(relaxed); the executor's destructor then joins the
\* workers, which finish every task still scheduled, before Run returns.
RunLoad(c) ==
    /\ pc[c] = "load"
    /\ ret' = [ret EXCEPT ![c] = counter_]
    /\ pc' = [pc EXCEPT ![c] = "joining"]
    /\ UNCHANGED <<counter_, tstate, join, wtask, lastOp, prevOp, runsSince,
                   runsEver, libVars, envVars>>

RunReturn(c) ==
    /\ pc[c] = "joining"
    /\ \A w \in Workers : wtask[c][w] = "idle"
    /\ \A t \in TasksOf(variant) : tstate[c][t] # "ready"
    /\ pc' = [pc EXCEPT ![c] = "idle"]
    /\ tstate' = [tstate EXCEPT ![c] = NoTaskflow]
    /\ join' = [join EXCEPT ![c] = NoJoin]
    /\ runsSince' = runsSince + 1
    /\ Completed(c, "run")
    /\ tname' = [tname EXCEPT ![c] = NoNames]
    /\ UNCHANGED <<counter_, wtask, ret, runsEver, libVars,
                   variant, start, firstOut, role>>

\* GetCounter() is entered; its load of counter_ is the next step of c.
GetCounterCall(c) ==
    /\ pc[c] = "idle"
    /\ pc' = [pc EXCEPT ![c] = "get"]
    /\ UNCHANGED <<counter_, tstate, join, wtask, ret, lastOp, prevOp,
                   runsSince, runsEver, libVars, envVars>>

\* return counter_.load(std::memory_order_relaxed);
GetCounter(c) ==
    /\ pc[c] = "get"
    /\ ret' = [ret EXCEPT ![c] = GetCounterIn(variant, counter_)]
    /\ counter_' = GetCounterLeaves(counter_)
    /\ pc' = [pc EXCEPT ![c] = "idle"]
    /\ Completed(c, "get")
    /\ UNCHANGED <<tstate, join, wtask, runsSince, runsEver, libVars, envVars>>

\* Reset() is entered; its store to counter_ is the next step of c.
ResetCall(c) ==
    /\ pc[c] = "idle"
    /\ pc' = [pc EXCEPT ![c] = "reset"]
    /\ UNCHANGED <<counter_, tstate, join, wtask, ret, lastOp, prevOp,
                   runsSince, runsEver, libVars, envVars>>

\* counter_.store(0, std::memory_order_relaxed);
Reset(c) ==
    /\ pc[c] = "reset"
    /\ counter_' = ResetIn(variant, counter_)
    /\ pc' = [pc EXCEPT ![c] = "idle"]
    /\ runsSince' = 0
    /\ Completed(c, "reset")
    /\ UNCHANGED <<tstate, join, wtask, ret, runsEver, libVars, envVars>>

\* The accesses to counter_ that threads are about to perform: the caller
\* thread c at its load or store, worker w of c's executor at its fetch_add.
PendingAccesses ==
    {[thread |-> <<c, 0>>, write |-> pc[c] = "reset", atomic |-> CounterIsAtomic] :
        c \in {d \in Callers : pc[d] \in {"load", "get", "reset"}}}
    \cup
    {[thread |-> cw, write |-> TRUE, atomic |-> CounterIsAtomic] :
        cw \in {dw \in Callers \X Workers :
                  /\ wtask[dw[1]][dw[2]] # "idle"
                  /\ tstate[dw[1]][wtask[dw[1]][dw[2]]] = "running"}}

\* A data race: two threads at conflicting accesses (one of them a write),
\* one of them not atomic.
DataRace ==
    \E a, b \in PendingAccesses :
        /\ a.thread # b.thread
        /\ a.write \/ b.write
        /\ ~a.atomic \/ ~b.atomic

Next ==
    \/ \E c \in Callers : RunBuild(c)
    \/ \E c \in Callers : RunSubmit(c)
    \/ \E c \in Callers, w \in Workers, t \in Tasks : WorkerTake(c, w, t)
    \/ \E c \in Callers, w \in Workers : TaskInvoke(c, w)
    \/ \E c \in Callers, w \in Workers : WorkerFinish(c, w)
    \/ \E c \in Callers : RunWait(c)
    \/ \E c \in Callers : RunLoad(c)
    \/ \E c \in Callers : RunReturn(c)
    \/ \E c \in Callers : GetCounterCall(c)
    \/ \E c \in Callers : GetCounter(c)
    \/ \E c \in Callers : ResetCall(c)
    \/ \E c \in Callers : Reset(c)

\* One caller thread using one SimplePipeline, as the primer's tests do; the
\* executor's workers run the tasks concurrently with it.
Spec == Init /\ [][Next]_vars

(***************************************************************************)
(* Claims about SimplePipeline, checked under Spec.                        *)
(***************************************************************************)

\* Caller c has returned from the API call op and made no call since.
Returned(c, op) == pc[c] = "idle" /\ lastOp[c] = op

NoRunInProgress == \A c \in Callers : pc[c] \in {"idle", "get", "reset"}

\* C1: on a freshly constructed SimplePipeline (no Run before it) Run returns
\* 2, whichever workers take the two tasks and in whatever order they step.
C1_FirstRunReturnsTwo ==
    \A c \in Callers :
        (runsEver = 1 /\ (pc[c] = "joining" \/ Returned(c, "run")))
            => ret[c] = 2

C1_Witness ==
    \E c \in Callers :
        /\ Returned(c, "run") /\ prevOp[c] = "none"
        /\ runsEver = 1 /\ ret[c] = 2

\* C2: whenever no Run is in progress the counter is twice the number of Run
\* calls completed since construction or the last Reset, and a Run that has
\* just returned returned that value (2k for the k-th consecutive Run, 2 for
\* the first Run after a Reset).
C2_CounterIsTwiceRuns ==
    /\ NoRunInProgress => counter_ = 2 * runsSince
    /\ \A c \in Callers : Returned(c, "run") => ret[c] = 2 * runsSince

\* Run, Reset, Run, Run: the counter is 4 and the last Run returned 4.
C2_Witness ==
    \E c \in Callers :
        /\ Returned(c, "run") /\ prevOp[c] = "run"
        /\ runsEver = 3 /\ runsSince = 2
        /\ counter_ = 4 /\ ret[c] = 4

\* C3: after Reset returns (no Run in progress) the counter is 0, and a
\* GetCounter that follows the Reset returns 0, however many Runs preceded.
C3_ResetClearsCounter ==
    \A c \in Callers :
        /\ Returned(c, "reset") => counter_ = 0
        /\ (Returned(c, "get") /\ prevOp[c] = "reset") => ret[c] = 0

C3_Witness ==
    \E c \in Callers :
        /\ Returned(c, "get") /\ prevOp[c] = "reset"
        /\ runsEver >= 2 /\ ret[c] = 0

Started == {"running", "executed", "done"}
Executing == {"running", "executed"}

\* C4: in every Run, TaskB is not started before TaskA has finished, and the
\* two tasks are never executing at the same time.
C4_TaskABeforeTaskB ==
    \A c \in Callers :
        /\ tstate[c]["TaskB"] \in Started => tstate[c]["TaskA"] = "done"
        /\ ~(tstate[c]["TaskA"] \in Executing /\ tstate[c]["TaskB"] \in Executing)

C4_Witness ==
    \E c \in Callers :
        tstate[c]["TaskA"] = "done" /\ tstate[c]["TaskB"] = "running"

\* C5: Run loads the value it returns only after TaskA and TaskB have both
\* finished, and the value it returns is the counter after both increments.
C5_RunReturnsAfterBothTasks ==
    \A c \in Callers :
        /\ pc[c] \in {"load", "joining"} =>
              tstate[c]["TaskA"] = "done" /\ tstate[c]["TaskB"] = "done"
        /\ pc[c] = "joining" => ret[c] = counter_

C5_Witness ==
    \E c \in Callers :
        /\ pc[c] = "joining" /\ runsEver = 2 /\ ret[c] = 4
        /\ tstate[c]["TaskB"] = "done"

C7_GetCounterBeforeRunIsZero ==
    \A c \in Callers : (Returned(c, "get") /\ runsEver = 0) => ret[c] = 0

C7_Witness ==
    \E c \in Callers :
        Returned(c, "get") /\ prevOp[c] = "none" /\ runsEver = 0 /\ ret[c] = 0

\* C8: GetCounter returns the current counter and changes neither the counter
\* nor the pipeline; right after a Run it returns what that Run returned, and
\* right after another GetCounter it returns the same value again.
C8_GetCounterReadsOnly ==
    [][\A c \in Callers :
          (pc[c] = "get" /\ pc'[c] = "idle") =>
              /\ ret'[c] = counter_
              /\ counter_' = counter_
              /\ tstate' = tstate /\ runsEver' = runsEver
              /\ lastOp[c] \in {"run", "get"} => ret'[c] = ret[c]]_vars

C8_Witness ==
    \E c \in Callers :
        /\ Returned(c, "get") /\ prevOp[c] = "run"
        /\ runsEver = 1 /\ ret[c] = 2 /\ counter_ = 2

(***************************************************************************)
(* Part II.  mylib::Add and mylib::Factorial                               *)
(*                                                                         *)
(* TLC's integers are 32 bit, so a std::uint64_t is held as four 16 bit    *)
(* limbs, least significant first, and a mathematical natural number as a  *)
(* limb sequence of any length without leading zero limbs.                 *)
(***************************************************************************)

Limb == 65536

\* static_cast<std::uint64_t>(v) of a small non-negative int.
U64(v) == <<v % Limb, v \div Limb, 0, 0>>

\* result *= k on a std::uint64_t: the product modulo 2^64 (the carry out of
\* the top limb is lost).
U64MulIn32Bits(x, k) ==
    LET p1 == x[1] * k
        p2 == x[2] * k + (p1 \div Limb)
    IN  <<p1 % Limb, p2 % Limb, 0, 0>>
U64Mul(x, k) ==
    LET p1 == x[1] * k
        p2 == x[2] * k + (p1 \div Limb)
        p3 == x[3] * k + (p2 \div Limb)
        p4 == x[4] * k + (p3 \div Limb)
    IN  <<p1 % Limb, p2 % Limb, p3 % Limb, p4 % Limb>>

\* lhs + rhs does not fit an int: signed overflow, undefined behaviour.
AddOverflows(l, r) ==
    \/ r > 0 /\ l > IntMax - r
    \/ r < 0 /\ l < IntMin - r

\* The two's complement result of an overflowing lhs + rhs.
AddWrapped(l, r) ==
    IF r > 0 THEN (l + IntMin) + (r + IntMin)
             ELSE (l - IntMin) + (r - IntMin)

\* The ints Add is called with.
IntSamples ==
    (-MaxOperand .. MaxOperand)
        \cup {IntMin + k : k \in 0 .. EdgeWidth}
        \cup {IntMax - k : k \in 0 .. EdgeWidth}

AddIgnoresRhs(l, r) == {[kind |-> "value", value |-> l]}

\* What return lhs + rhs produces. Within int it is the sum. On overflow the
\* behaviour is undefined: the build may wrap, may return any other int, or
\* may trap (the sanitizer presets abort on it).
Add(l, r) ==
    IF ~AddOverflows(l, r)
    THEN {[kind |-> "value", value |-> l + r]}
    ELSE {[kind |-> "value", value |-> v] : v \in IntSamples \cup {AddWrapped(l, r)}}
            \cup {[kind |-> "trap", value |-> 0]}

\* std::string as the sequence of its characters. The names Greet is called
\* with: every string of at most MaxNameLen characters over NameChars, and
\* the names the tests use.
NameChars == {"W", "!"}
World == <<"W", "o", "r", "l", "d">>
Alice == <<"A", "l", "i", "c", "e">>
Names ==
    UNION {[1 .. n -> NameChars] : n \in 0 .. MaxNameLen} \cup {World, Alice}

\* operator+ on std::string and string literals: concatenation.
StrCat(a, b) == a \o b

\* return "Hello, " + name + "!";
GreetWithoutComma(nm) ==
    StrCat(StrCat(<<"H", "e", "l", "l", "o", " ">>, nm), <<"!">>)
Greet(nm) ==
    StrCat(StrCat(<<"H", "e", "l", "l", "o", ",", " ">>, nm), <<"!">>)

\* A library call with its arguments: the initial states of SpecLib.
LibInit ==
    /\ ExtOff
    /\ libPc = "call"
    /\ \/ /\ libFn = "Add"
          /\ lhs \in IntSamples /\ rhs \in IntSamples
          /\ num = 0
          /\ name = <<>>
       \/ /\ libFn = "Factorial"
          /\ lhs = 0 /\ rhs = 0
          /\ num \in (-MaxNum .. MaxNum) \cup {IntMin, IntMin + 1}
          /\ name = <<>>
       \/ /\ libFn = "Greet"
          /\ lhs = 0 /\ rhs = 0 /\ num = 0
          /\ name \in Names
       \/ /\ libFn = "PrintGreeting"
          /\ lhs = 0 /\ rhs = 0 /\ num = 0
          /\ name = <<>>
    /\ idx = 0
    /\ result = <<0, 0, 0, 0>>
    /\ factOut = <<0, 0, 0, 0>>
    /\ addOut = [kind |-> "none", value |-> 0]
    /\ greetOut = <<>> /\ printOut = "none"
    /\ calls = 1 /\ probe = NoCall /\ printedSince = FALSE

\* if (num <= 1) in Factorial.
FactorialBaseCaseNonNegative(n) == 0 <= n /\ n <= 1
FactorialBaseCase(n) == n <= 1

\* int Add(int lhs, int rhs) { return lhs + rhs; }
AddCall ==
    /\ libPc = "call" /\ libFn = "Add"
    /\ addOut' \in Add(lhs, rhs)
    /\ libPc' = "returned"
    /\ UNCHANGED <<libFn, lhs, rhs, num, idx, result, factOut,
                   name, greetOut, printOut, callVars, extVars, pipeVars>>

\* std::string Greet(const std::string& name)
GreetCall ==
    /\ libPc = "call" /\ libFn = "Greet"
    /\ greetOut' = Greet(name)
    /\ libPc' = "returned"
    /\ UNCHANGED <<libFn, lhs, rhs, num, idx, result, factOut, addOut,
                   name, printOut, callVars, extVars, pipeVars>>

\* void PrintGreeting(): its definition is not among the repository's files;
\* the specification calls it a no-op print function, and its test expects
\* it not to throw. How the call ends:
PrintGreetingThrows == "threw"
PrintGreetingOutcome == "returned"

PrintGreetingCall ==
    /\ libPc = "call" /\ libFn = "PrintGreeting"
    /\ printOut' = PrintGreetingOutcome
    /\ libPc' = "returned"
    /\ UNCHANGED <<libFn, lhs, rhs, num, idx, result, factOut, addOut,
                   name, greetOut, callVars, extVars, pipeVars>>

\* if (num <= 1) return 1;
FactorialEarlyReturn ==
    /\ libPc = "call" /\ libFn = "Factorial"
    /\ FactorialBaseCase(num)
    /\ factOut' = U64(1)
    /\ libPc' = "returned"
    /\ UNCHANGED <<libFn, lhs, rhs, num, idx, result, addOut,
                   name, greetOut, printOut, callVars, extVars, pipeVars>>

\* std::uint64_t result = 1; for (int idx = 2; ...
FactorialLoopInit ==
    /\ libPc = "call" /\ libFn = "Factorial"
    /\ ~FactorialBaseCase(num)
    /\ result' = U64(1)
    /\ idx' = 2
    /\ libPc' = "loop"
    /\ UNCHANGED <<libFn, lhs, rhs, num, factOut, addOut,
                   name, greetOut, printOut, callVars, extVars, pipeVars>>

\* idx <= num: result *= static_cast<std::uint64_t>(idx); ++idx
FactorialLoopBody ==
    /\ libPc = "loop"
    /\ idx <= num
    /\ result' = U64Mul(result, idx)
    /\ idx' = idx + 1
    /\ UNCHANGED <<libPc, libFn, lhs, rhs, num, factOut, addOut,
                   name, greetOut, printOut, callVars, extVars, pipeVars>>

\* !(idx <= num): return result;
FactorialReturn ==
    /\ libPc = "loop"
    /\ ~(idx <= num)
    /\ factOut' = result
    /\ libPc' = "returned"
    /\ UNCHANGED <<libFn, lhs, rhs, num, idx, result, addOut,
                   name, greetOut, printOut, callVars, extVars, pipeVars>>

NextLib ==
    \/ AddCall
    \/ GreetCall
    \/ PrintGreetingCall
    \/ FactorialEarlyReturn
    \/ FactorialLoopInit
    \/ FactorialLoopBody
    \/ FactorialReturn

\* One call of a library function on arguments drawn from the bounded sets.
InitLib == PipelineInit /\ LibInit

SpecLib == InitLib /\ [][NextLib]_vars

\* The call in progress or just completed, with what it has produced.
CurrentCall ==
    CallRecord(libFn, lhs, rhs, num, name, addOut, factOut, greetOut, printOut)

\* The calls a test program makes one after the other in SpecCalls:
\* <<function, lhs, rhs, num, name>>.
CallChoices ==
    {<<"Add", 1, 2, 0, <<>> >>, <<"Add", -1, 1, 0, <<>> >>,
     <<"Add", IntMax, 1, 0, <<>> >>,
     <<"Factorial", 0, 0, 0, <<>> >>, <<"Factorial", 0, 0, 3, <<>> >>,
     <<"Factorial", 0, 0, 21, <<>> >>,
     <<"Greet", 0, 0, 0, <<>> >>, <<"Greet", 0, 0, 0, <<"W">> >>,
     <<"PrintGreeting", 0, 0, 0, <<>> >>}

CallsInit ==
    /\ ExtOff
    /\ libPc = "call"
    /\ \E ch \in CallChoices :
          /\ libFn = ch[1] /\ lhs = ch[2] /\ rhs = ch[3] /\ num = ch[4]
          /\ name = ch[5]
    /\ idx = 0
    /\ result = <<0, 0, 0, 0>>
    /\ factOut = <<0, 0, 0, 0>>
    /\ addOut = NoAddOut
    /\ greetOut = <<>> /\ printOut = "none"
    /\ calls = 1 /\ probe = NoCall /\ printedSince = FALSE

\* The program goes on to its next library call, unless the last one ended
\* the program (a trap, an exception nobody catches). The first call completed
\* is kept as the probe that later calls are compared with.
NextCall ==
    /\ libPc = "returned"
    /\ calls < MaxCalls
    /\ addOut.kind # "trap" /\ printOut # "threw"
    /\ \E ch \in CallChoices :
          /\ libFn' = ch[1] /\ lhs' = ch[2] /\ rhs' = ch[3] /\ num' = ch[4]
          /\ name' = ch[5]
    /\ libPc' = "call"
    /\ idx' = 0
    /\ result' = <<0, 0, 0, 0>>
    /\ factOut' = <<0, 0, 0, 0>>
    /\ addOut' = NoAddOut
    /\ greetOut' = <<>> /\ printOut' = "none"
    /\ calls' = calls + 1
    /\ probe' = IF probe = NoCall THEN CurrentCall ELSE probe
    /\ printedSince' = (printedSince \/ (probe # NoCall /\ libFn = "PrintGreeting"))
    /\ UNCHANGED <<pipeVars, extVars>>

NextCalls ==
    \/ AddCall
    \/ GreetCall
    \/ PrintGreetingCall
    \/ FactorialEarlyReturn
    \/ FactorialLoopInit
    \/ FactorialLoopBody
    \/ FactorialReturn
    \/ NextCall

InitCalls == PipelineInit /\ CallsInit

\* A program making up to MaxCalls library calls one after the other.
SpecCalls == InitCalls /\ [][NextCalls]_vars

(***************************************************************************)
(* Claims about the library, checked under SpecLib and SpecCalls.          *)
(***************************************************************************)

\* Mathematical naturals: limb sequences, least significant limb first.
RECURSIVE NatMulCarry(_, _, _)
NatMulCarry(n, k, carry) ==
    IF n = <<>>
    THEN IF carry = 0 THEN <<>> ELSE <<carry>>
    ELSE LET p == Head(n) * k + carry
         IN  <<p % Limb>> \o NatMulCarry(Tail(n), k, p \div Limb)

NatMul(n, k) == NatMulCarry(n, k, 0)

\* 1 * 2 * ... * n, with the empty product 1 for n = 0.
RECURSIVE NatFactorial(_)
NatFactorial(n) == IF n = 0 THEN <<1>> ELSE NatMul(NatFactorial(n - 1), n)

\* The natural number a std::uint64_t holds.
RECURSIVE StripZeros(_)
StripZeros(x) ==
    IF x # <<>> /\ x[Len(x)] = 0 THEN StripZeros(SubSeq(x, 1, Len(x) - 1)) ELSE x

U64ToNat(x) == StripZeros(x)

\* Mathematical integers of at most 34 bits as <<high part, low limb>>.
IntToMath(v) == <<v \div Limb, v % Limb>>

\* The mathematical sum l + r of two ints, computed without leaving 32 bits.
MathSum(l, r) ==
    LET lo == (l % Limb) + (r % Limb)
    IN  <<(l \div Limb) + (r \div Limb) + (lo \div Limb), lo % Limb>>

\* C9: for every num >= 0, Factorial(num) returns the factorial of num.
C9_FactorialIsFactorial ==
    (libFn = "Factorial" /\ libPc = "returned" /\ num >= 0)
        => U64ToNat(factOut) = NatFactorial(num)

\* C10: for every pair of ints, Add(lhs, rhs) returns the sum lhs + rhs.
C10_AddIsSum ==
    (libFn = "Add" /\ libPc = "returned")
        => addOut.kind = "value" /\ IntToMath(addOut.value) = MathSum(lhs, rhs)

\* C11: for every string name, the empty one included, Greet(name) returns
\* exactly "Hello, " followed by name followed by "!", and the call leaves
\* name as it was.
C11_GreetIsHelloNameBang ==
    /\ [](libFn = "Greet" /\ libPc = "returned" =>
            /\ Len(greetOut) = 7 + Len(name) + 1
            /\ SubSeq(greetOut, 1, 7) = <<"H", "e", "l", "l", "o", ",", " ">>
            /\ SubSeq(greetOut, 8, 7 + Len(name)) = name
            /\ greetOut[8 + Len(name)] = "!")
    /\ [][libFn = "Greet" /\ libPc = "call" => name' = name]_vars

\* Greet("") = "Hello, !".
C11_Witness ==
    /\ libFn = "Greet" /\ libPc = "returned" /\ name = <<>>
    /\ greetOut = <<"H", "e", "l", "l", "o", ",", " ", "!">>

\* The low 64 bits of a natural number, as a std::uint64_t.
NatMod64(n) == [i \in 1 .. 4 |-> IF i <= Len(n) THEN n[i] ELSE 0]

SameCall(a, b) ==
    /\ a.fn = b.fn /\ a.lhs = b.lhs /\ a.rhs = b.rhs /\ a.num = b.num
    /\ a.name = b.name

SameResult(a, b) ==
    /\ a.addOut = b.addOut /\ a.factOut = b.factOut
    /\ a.greetOut = b.greetOut /\ a.printOut = b.printOut

StartValues == (0 .. MaxStart) \cup {IntMax - 1, IntMax}

EquivInit ==
    /\ start \in StartValues
    /\ counter_ = start
    /\ variant \in {"green", "noprecede"}
    /\ firstOut = NoOut
    /\ pc = [c \in {"main"} |-> "idle"]
    /\ tstate = [c \in {"main"} |-> NoTaskflow]
    /\ join = [c \in {"main"} |-> NoJoin]
    /\ wtask = [c \in {"main"} |-> IdleWorkers]
    /\ ret = [c \in {"main"} |-> 0]
    /\ lastOp = [c \in {"main"} |-> "none"]
    /\ prevOp = [c \in {"main"} |-> "none"]
    /\ runsSince = 0
    /\ runsEver = 0
    /\ role = [c \in {"main"} |-> "any"]
    /\ tname = [c \in {"main"} |-> NoNames]
    /\ LibOff

\* One call of Run on the object under study.
RunOnce(c) == runsSince = 0 /\ RunBuild(c)

\* The first object's Run has returned: what it returned and left in counter_
\* is kept, and the second object, with the final code, takes its place.
SecondObject(c) ==
    /\ variant # "refactor"
    /\ Returned(c, "run")
    /\ runsSince = 1
    /\ firstOut' = [variant |-> variant, ret |-> ret[c], counter |-> counter_]
    /\ variant' = "refactor"
    /\ counter_' = start
    /\ runsSince' = 0
    /\ UNCHANGED <<pc, tstate, join, wtask, ret, lastOp, prevOp, runsEver,
                   start, role, tname, libVars>>

NextEquiv ==
    \/ \E c \in Callers : RunOnce(c)
    \/ \E c \in Callers : RunSubmit(c)
    \/ \E c \in Callers, w \in Workers, t \in Tasks : WorkerTake(c, w, t)
    \/ \E c \in Callers, w \in Workers : TaskInvoke(c, w)
    \/ \E c \in Callers, w \in Workers : WorkerFinish(c, w)
    \/ \E c \in Callers : RunWait(c)
    \/ \E c \in Callers : RunLoad(c)
    \/ \E c \in Callers : RunReturn(c)
    \/ \E c \in Callers : SecondObject(c)

SpecEquiv == EquivInit /\ [][NextEquiv]_vars

\* The second object's Run has returned after a first object ran version v.
BothReturned(v) ==
    /\ firstOut.variant = v
    /\ variant = "refactor"
    /\ runsSince = 1
    /\ Returned("main", "run")

\* C14: from every starting counter value the REFACTOR phase's Run returns
\* what the GREEN phase's Run returns and leaves the counter the GREEN
\* phase's Run leaves; from 0 both return 2, as the existing test expects.
C14_RefactorEquivalentToGreen ==
    BothReturned("green") =>
        /\ ret["main"] = firstOut.ret
        /\ counter_ = firstOut.counter
        /\ start = 0 => (ret["main"] = 2 /\ firstOut.ret = 2)

\* Both versions have run from 1 and returned 3; the REFACTOR one named its
\* tasks while it ran.
C14_Witness ==
    /\ BothReturned("green")
    /\ start = 1 /\ firstOut.ret = 3 /\ ret["main"] = 3 /\ counter_ = 3

\* C19: from every starting counter value the Run without
\* task_a.precede(task_b) returns what the original Run returns and leaves
\* the counter the original leaves.
C19_DependencyNotObservable ==
    BothReturned("noprecede") =>
        /\ ret["main"] = firstOut.ret
        /\ counter_ = firstOut.counter

\* Both have run from the largest int, where the two increments wrap.
C19_Witness ==
    /\ BothReturned("noprecede")
    /\ start = IntMax /\ firstOut.ret = IntMin + 1 /\ counter_ = IntMin + 1

(***************************************************************************)
(* Part IV.  Several threads calling one SimplePipeline at the same time.  *)
(* Each thread has one role: a "run" thread calls Run once, a "reset"      *)
(* thread calls Reset once, and a "get" thread calls GetCounter again and  *)
(* again.  Each Run has its own executor, with its own workers.            *)
(***************************************************************************)
Threads == 1 .. NumThreads
Roles == {"run", "reset", "get"}
RoleRank(r) == CASE r = "run" -> 1 [] r = "reset" -> 2 [] OTHER -> 3

\* The threads differ only in their roles: one assignment per multiset of
\* roles is taken, the roles in rank order.
RoleAssignments ==
    {f \in [Threads -> Roles] :
        \A i, j \in Threads : i < j => RoleRank(f[i]) <= RoleRank(f[j])}

ConcInit ==
    /\ start \in 0 .. MaxStart
    /\ counter_ = start
    /\ role \in RoleAssignments
    /\ variant = "refactor"
    /\ firstOut = NoOut
    /\ pc = [c \in Threads |-> "idle"]
    /\ tstate = [c \in Threads |-> NoTaskflow]
    /\ join = [c \in Threads |-> NoJoin]
    /\ wtask = [c \in Threads |-> IdleWorkers]
    /\ ret = [c \in Threads |-> 0]
    /\ lastOp = [c \in Threads |-> "none"]
    /\ prevOp = [c \in Threads |-> "none"]
    /\ runsSince = 0
    /\ runsEver = 0
    /\ tname = [c \in Threads |-> NoNames]
    /\ LibOff

RunThread(c) == role[c] = "run" /\ lastOp[c] = "none" /\ RunBuild(c)
ResetThread(c) == role[c] = "reset" /\ lastOp[c] = "none" /\ ResetCall(c)
GetCounterThread(c) == role[c] = "get" /\ GetCounterCall(c)

NextConc ==
    \/ \E c \in Callers : RunThread(c)
    \/ \E c \in Callers : RunSubmit(c)
    \/ \E c \in Callers, w \in Workers, t \in Tasks : WorkerTake(c, w, t)
    \/ \E c \in Callers, w \in Workers : TaskInvoke(c, w)
    \/ \E c \in Callers, w \in Workers : WorkerFinish(c, w)
    \/ \E c \in Callers : RunWait(c)
    \/ \E c \in Callers : RunLoad(c)
    \/ \E c \in Callers : RunReturn(c)
    \/ \E c \in Callers : GetCounterThread(c)
    \/ \E c \in Callers : GetCounter(c)
    \/ \E c \in Callers : ResetThread(c)
    \/ \E c \in Callers : Reset(c)

SpecConc == ConcInit /\ [][NextConc]_vars

Runners == {c \in Callers : role[c] = "run"}
Resetters == {c \in Callers : role[c] = "reset"}
Getters == {c \in Callers : role[c] = "get"}

\* C15: m threads call Run on one SimplePipeline whose counter holds start,
\* and no thread calls Reset: every call that has returned returned a value
\* from start + 2 to start + 2m, and once all m have returned the counter is
\* start + 2m.
C15_NoIncrementLost ==
    (Resetters = {} /\ Runners # {}) =>
        /\ \A c \in Runners : Returned(c, "run") =>
              /\ start + 2 <= ret[c]
              /\ ret[c] <= start + 2 * Cardinality(Runners)
        /\ (\A c \in Runners : Returned(c, "run")) =>
              counter_ = start + 2 * Cardinality(Runners)

\* Two Runs overlapped: one loaded the counter after three of the four
\* increments, the other after all four.
C15_Witness ==
    /\ Resetters = {} /\ Cardinality(Runners) = 2
    /\ \A c \in Runners : Returned(c, "run")
    /\ \E c, d \in Runners : ret[c] = start + 3 /\ ret[d] = start + 4
    /\ counter_ = start + 4

\* C16: one thread calls Run on a SimplePipeline whose counter holds start
\* while one thread calls Reset: once both have returned the counter is 0, 1
\* or 2, and Run has returned 0, 1, 2 or start + 2.
C16_ResetDuringRun ==
    (Cardinality(Runners) = 1 /\ Cardinality(Resetters) = 1) =>
        /\ ((\A c \in Runners : Returned(c, "run"))
              /\ (\A c \in Resetters : Returned(c, "reset")))
                => counter_ \in {0, 1, 2}
        /\ \A c \in Runners : Returned(c, "run") =>
              ret[c] \in {0, 1, 2, start + 2}

\* Reset stored 0 between the two increments of a Run started at 2: Run
\* returned 1 and the counter is 1.
C16_Witness ==
    /\ Cardinality(Runners) = 1 /\ Cardinality(Resetters) = 1
    /\ start = 2
    /\ \A c \in Runners : Returned(c, "run") /\ ret[c] = 1
    /\ \A c \in Resetters : Returned(c, "reset")
    /\ counter_ = 1

\* C17: while one thread calls Run once on a SimplePipeline whose counter
\* holds start, with no Reset and no other Run, every GetCounter call of
\* another thread returns start, start + 1 or start + 2, and no GetCounter
\* call of a thread returns less than that thread's previous one.
C17_GetCounterDuringRun ==
    /\ []((Cardinality(Runners) = 1 /\ Resetters = {}) =>
            \A g \in Getters : Returned(g, "get") =>
                ret[g] \in {start, start + 1, start + 2})
    /\ [][(Cardinality(Runners) = 1 /\ Resetters = {}) =>
            \A g \in Getters :
                (lastOp[g] = "get" /\ pc[g] = "get" /\ pc'[g] = "idle")
                    => ret'[g] >= ret[g]]_vars

\* A GetCounter between the two increments of the Run returned start + 1
\* after an earlier GetCounter of the same thread.
C17_Witness ==
    /\ Cardinality(Runners) = 1 /\ Resetters = {}
    /\ \E g \in Getters :
          /\ Returned(g, "get") /\ prevOp[g] = "get" /\ ret[g] = start + 1
    /\ \E c \in Runners, t \in Tasks :
          tstate[c][t] = "done" /\ pc[c] = "waiting"

(***************************************************************************)
(* Part V.  Termination of Run.  The calling thread keeps running, and the *)
(* executor's workers are scheduled fairly: a worker that can take a       *)
(* scheduled task, invoke it or finish it eventually does.                 *)
(***************************************************************************)
Fairness ==
    /\ WF_vars(RunSubmit("main"))
    /\ WF_vars(RunWait("main"))
    /\ WF_vars(RunLoad("main"))
    /\ WF_vars(RunReturn("main"))
    /\ \A w \in Workers :
          /\ WF_vars(\E t \in Tasks : WorkerTake("main", w, t))
          /\ WF_vars(TaskInvoke("main", w))
          /\ WF_vars(WorkerFinish("main", w))

SpecFair == Init /\ [][Next]_vars /\ Fairness

\* The task has been invoked in the current Run.
Invoked == {"executed", "done"}

\* C18: under fair scheduling every Run that has been called returns; before
\* it returns TaskA is invoked, and TaskB after TaskA has finished; a task
\* that has been invoked is not invoked again in that Run, and both tasks have
\* finished when Run returns.
C18_RunTerminates ==
    /\ (pc["main"] = "built") ~> (tstate["main"]["TaskA"] \in Invoked
                                    /\ tstate["main"]["TaskB"] = "waiting")
    /\ (pc["main"] = "built") ~> (tstate["main"]["TaskA"] = "done"
                                    /\ tstate["main"]["TaskB"] \in Invoked)
    /\ (pc["main"] = "built") ~> Returned("main", "run")
    /\ [][\A t \in Tasks :
            /\ tstate["main"][t] \in Invoked =>
                  tstate'["main"][t] \in Invoked \cup {"none"}
            /\ (tstate["main"][t] # "none" /\ tstate'["main"][t] = "none") =>
                  (tstate["main"][t] = "done" /\ Returned("main", "run")')]_vars

\* The third Run of the object is about to return with both tasks finished.
C18_Witness ==
    /\ pc["main"] = "joining" /\ runsEver = 3
    /\ \A t \in Tasks : tstate["main"][t] = "done"
    /\ \A w \in Workers : wtask["main"][w] = "idle"

(***************************************************************************)
(* Part VI.  More properties of the library functions.                     *)
(***************************************************************************)

\* C21: for every num <= 1, negative ones included, Factorial returns 1 and
\* does not enter the multiplication loop: no local of the loop is set.
C21_FactorialBelowTwoIsOne ==
    (libFn = "Factorial" /\ num <= 1) =>
        /\ libPc \in {"call", "returned"}
        /\ idx = 0 /\ result = <<0, 0, 0, 0>>
        /\ libPc = "returned" => factOut = <<1, 0, 0, 0>>

\* Factorial(INT_MIN) has returned 1.
C21_Witness ==
    /\ libFn = "Factorial" /\ libPc = "returned"
    /\ num = IntMin /\ factOut = <<1, 0, 0, 0>>

\* A mathematical integer <<high part, low limb>> lies within the range of
\* int.
InIntRange(m) == 0 - 32768 <= m[1] /\ m[1] <= 32767

\* C22: for all ints lhs and rhs whose mathematical sum lies within the range
\* of int, Add(lhs, rhs) returns that sum as a value (it is not clamped and no
\* error is reported), Add(rhs, lhs) produces the same, and Add(lhs, 0) is
\* lhs.
C22_AddInRange ==
    (libFn = "Add" /\ InIntRange(MathSum(lhs, rhs))) =>
        /\ libPc = "returned" =>
              /\ addOut.kind = "value"
              /\ IntToMath(addOut.value) = MathSum(lhs, rhs)
              /\ addOut \in Add(rhs, lhs)
        /\ Add(lhs, rhs) = Add(rhs, lhs)
        /\ Cardinality(Add(lhs, rhs)) = 1
        /\ rhs = 0 => Add(lhs, 0) = {[kind |-> "value", value |-> lhs]}

\* Add(INT_MAX - 1, 1) has returned INT_MAX.
C22_Witness ==
    /\ libFn = "Add" /\ libPc = "returned"
    /\ lhs = IntMax - 1 /\ rhs = 1
    /\ addOut = [kind |-> "value", value |-> IntMax]

(***************************************************************************)
(* Part VII.  More properties of SimplePipeline.                           *)
(***************************************************************************)

\* C23: a Reset that follows a Reset leaves the counter as the first Reset
\* left it, at 0; a Reset on a pipeline that was never run leaves the counter
\* at 0, and the Run that follows it returns 2.
C23_ResetIdempotent ==
    /\ [][(pc["main"] = "reset" /\ lastOp["main"] = "reset"
             /\ pc'["main"] = "idle")
            => (counter_ = 0 /\ counter_' = counter_)]_vars
    /\ []((Returned("main", "reset") /\ runsEver = 0) => counter_ = 0)
    /\ []((Returned("main", "run") /\ prevOp["main"] = "reset" /\ runsEver = 1)
            => (ret["main"] = 2 /\ counter_ = 2))

\* Two Runs, then Reset and Reset again: the counter is 0.
C23_Witness ==
    /\ Returned("main", "reset") /\ prevOp["main"] = "reset" /\ runsEver = 2
    /\ counter_ = 0

(***************************************************************************)
(* Part VIII.  The tests of Phase 4.2, each on its own SimplePipeline, run *)
(* against the Phase 4.4 stubs and against the final code.  A test is the  *)
(* sequence of calls it makes; the value its EXPECT_EQ compares is what    *)
(* the last call returned.                                                 *)
(***************************************************************************)
TestNames ==
    {"Run_TwoSequentialTasks_ReturnsTwo", "counter_BeforeRun_ReturnsZero",
     "counter_AfterRun_ReturnsTwo", "Reset_AfterRun_ClearsCounter",
     "Run_CalledTwice_Accumulates", "Run_AfterReset_StartsFromZero"}

Script(test) ==
    CASE test = "Run_TwoSequentialTasks_ReturnsTwo" -> <<"run">>
      [] test = "counter_BeforeRun_ReturnsZero" -> <<"get">>
      [] test = "counter_AfterRun_ReturnsTwo" -> <<"run", "get">>
      [] test = "Reset_AfterRun_ClearsCounter" -> <<"run", "reset", "get">>
      [] test = "Run_CalledTwice_Accumulates" -> <<"run", "run", "get">>
      [] test = "Run_AfterReset_StartsFromZero" -> <<"run", "reset", "run">>

Expected(test) ==
    CASE test = "Run_TwoSequentialTasks_ReturnsTwo" -> 2
      [] test = "counter_BeforeRun_ReturnsZero" -> 0
      [] test = "counter_AfterRun_ReturnsTwo" -> 2
      [] test = "Reset_AfterRun_ClearsCounter" -> 0
      [] test = "Run_CalledTwice_Accumulates" -> 4
      [] test = "Run_AfterReset_StartsFromZero" -> 2

\* The test in progress, and how many of its calls have returned: the calls
\* made so far are the prefix of the script that ends with the last two calls
\* and holds the Runs made.
CurrentTest == role["main"]
OpAt(seq, i) == IF i >= 1 THEN seq[i] ELSE "none"
RunsIn(seq, k) == Cardinality({i \in 1 .. k : seq[i] = "run"})
CallsReturned ==
    LET seq == Script(CurrentTest)
    IN  CHOOSE k \in 0 .. Len(seq) :
            /\ lastOp["main"] = OpAt(seq, k)
            /\ prevOp["main"] = OpAt(seq, k - 1)
            /\ runsEver = RunsIn(seq, k)
NextOp ==
    IF pc["main"] = "idle" /\ CallsReturned < Len(Script(CurrentTest))
    THEN Script(CurrentTest)[CallsReturned + 1]
    ELSE "none"

TestsInit ==
    /\ variant \in {"stub", "refactor"}
    /\ role \in [{"main"} -> TestNames]
    /\ start = CounterInit
    /\ counter_ = CounterInit
    /\ firstOut = NoOut
    /\ pc = [c \in {"main"} |-> "idle"]
    /\ tstate = [c \in {"main"} |-> NoTaskflow]
    /\ join = [c \in {"main"} |-> NoJoin]
    /\ wtask = [c \in {"main"} |-> IdleWorkers]
    /\ ret = [c \in {"main"} |-> 0]
    /\ lastOp = [c \in {"main"} |-> "none"]
    /\ prevOp = [c \in {"main"} |-> "none"]
    /\ runsSince = 0
    /\ runsEver = 0
    /\ tname = [c \in {"main"} |-> NoNames]
    /\ LibOff

TestRun(c) == NextOp = "run" /\ RunBuild(c)
TestGetCounter(c) == NextOp = "get" /\ GetCounterCall(c)
TestReset(c) == NextOp = "reset" /\ ResetCall(c)

NextTests ==
    \/ \E c \in Callers : TestRun(c)
    \/ \E c \in Callers : RunSubmit(c)
    \/ \E c \in Callers, w \in Workers, t \in Tasks : WorkerTake(c, w, t)
    \/ \E c \in Callers, w \in Workers : TaskInvoke(c, w)
    \/ \E c \in Callers, w \in Workers : WorkerFinish(c, w)
    \/ \E c \in Callers : RunWait(c)
    \/ \E c \in Callers : RunLoad(c)
    \/ \E c \in Callers : RunReturn(c)
    \/ \E c \in Callers : TestGetCounter(c)
    \/ \E c \in Callers : GetCounter(c)
    \/ \E c \in Callers : TestReset(c)
    \/ \E c \in Callers : Reset(c)

SpecTests == TestsInit /\ [][NextTests]_vars

\* The test has made all its calls; EXPECT_EQ holds.
TestDone ==
    pc["main"] = "idle" /\ CallsReturned = Len(Script(CurrentTest))
TestPasses == ret["main"] = Expected(CurrentTest)

\* C24: with the Phase 4.4 stubs each of the five tests added in Phase 4.2
\* fails and Run_TwoSequentialTasks_ReturnsTwo passes.
C24_StubsFailNewTests ==
    (variant = "stub" /\ TestDone) =>
        (TestPasses <=> CurrentTest = "Run_TwoSequentialTasks_ReturnsTwo")

\* Run_AfterReset_StartsFromZero against the stubs: the empty Reset left 2 and
\* the second Run returned 4.
C24_Witness ==
    /\ variant = "stub" /\ TestDone
    /\ CurrentTest = "Run_AfterReset_StartsFromZero"
    /\ ret["main"] = 4 /\ ~TestPasses

(***************************************************************************)
(* Part IX.  The Taskflow patterns of the testing standard, each a task    *)
(* graph run once by an executor.  A task graph gives each task the        *)
(* sequence of its successors; a task's callable is the sequence of its    *)
(* accesses to the shared variable.                                        *)
(***************************************************************************)
Patterns ==
    {"StateOrdering", "AtomicCounter", "PartialExecutionOnException",
     "ConditionalLoop"}

CounterTaskNames == <<"T1", "T2", "T3", "T4", "T5", "T6">>
CounterTasks == {CounterTaskNames[i] : i \in 1 .. NumCounterTasks}

\* ++counter < 5 in the condition task.
LoopLimit == 5

PatTasks(p) ==
    CASE p = "AtomicCounter" -> CounterTasks
      [] p = "ConditionalLoop" -> {"init", "cond", "body", "done"}
      [] OTHER -> {"A", "B", "C"}

\* A.precede(B); B.precede(C);
ChainWithoutBC == [t \in {"A", "B", "C"} |-> IF t = "A" THEN <<"B">> ELSE <<>>]
Chain ==
    [t \in {"A", "B", "C"} |->
        CASE t = "A" -> <<"B">> [] t = "B" -> <<"C">> [] OTHER -> <<>>]

\* init.precede(cond); cond.precede(body, done); body.precede(cond);
LoopGraph ==
    [t \in {"init", "cond", "body", "done"} |->
        CASE t = "init" -> <<"cond">>
          [] t = "cond" -> <<"body", "done">>
          [] t = "body" -> <<"cond">>
          [] OTHER -> <<>>]

PatSuccessors(p) ==
    CASE p = "AtomicCounter" -> [t \in CounterTasks |-> <<>>]
      [] p = "ConditionalLoop" -> LoopGraph
      [] OTHER -> Chain

\* A condition task: its callable returns an int.
IsCondition(p, t) == p = "ConditionalLoop" /\ t = "cond"

Range(seq) == {seq[i] : i \in 1 .. Len(seq)}
PatPredecessors(p, t) == {u \in PatTasks(p) : t \in Range(PatSuccessors(p)[u])}

\* The predecessors a task waits for: a task runs after all of its
\* predecessors that are not condition tasks; a condition task's return
\* value selects the successor that runs after it.
WaitedFor(p, t) == {u \in PatPredecessors(p, t) : ~IsCondition(p, u)}

\* The accesses of each callable.
Load == [op |-> "load", v |-> 0]
Store(v) == [op |-> "store", v |-> v]
StoreOne == [op |-> "store", v |-> 1]
FetchAdd == [op |-> "fetch_add", v |-> 0]
ThrowNothing == [op |-> "load", v |-> 0]
Throw == [op |-> "throw", v |-> 0]
PreIncrementBelow(v) == [op |-> "preinc", v |-> v]

PatBody(p, t) ==
    CASE p = "StateOrdering" ->
            <<Load, Store(CASE t = "A" -> 1 [] t = "B" -> 2 [] OTHER -> 3)>>
      [] p = "AtomicCounter" -> <<FetchAdd>>
      [] p = "PartialExecutionOnException" ->
            IF t = "B" THEN <<FetchAdd, Throw>> ELSE <<FetchAdd>>
      [] p = "ConditionalLoop" ->
            CASE t = "init" -> <<Store(0)>>
              [] t = "cond" -> <<PreIncrementBelow(LoopLimit)>>
              [] OTHER -> <<>>

\* executor.run(taskflow).get() rethrows; .wait() does not.
UsesGet(p) == p = "PartialExecutionOnException"

IdleWorker == [task |-> "idle", step |-> 0, ret |-> 0, threw |-> FALSE]

PatInit ==
    /\ pat \in Patterns
    /\ gpc = "built"
    /\ gstate = [t \in PatTasks(pat) |-> "waiting"]
    /\ gjoin = [t \in PatTasks(pat) |-> Cardinality(WaitedFor(pat, t))]
    /\ gwork = [w \in Workers |-> IdleWorker]
    /\ shared = 0
    /\ obs = [t \in PatTasks(pat) |-> <<>>]
    /\ execs = [t \in PatTasks(pat) |-> 0]
    /\ exc = FALSE

\* executor.run(taskflow): the tasks that have no predecessor are scheduled.
PatRun ==
    /\ gpc = "built"
    /\ gpc' = "waiting"
    /\ gstate' = [t \in PatTasks(pat) |->
                    IF PatPredecessors(pat, t) = {} THEN "ready" ELSE "waiting"]
    /\ UNCHANGED <<pat, gjoin, gwork, shared, obs, execs, exc, covVars>>

\* A worker of the executor takes a scheduled task.
PatTake(w, t) ==
    /\ gpc = "waiting"
    /\ gwork[w].task = "idle"
    /\ gstate[t] = "ready"
    /\ gwork' = [gwork EXCEPT ![w] = [IdleWorker EXCEPT !.task = t, !.step = 1]]
    /\ gstate' = [gstate EXCEPT ![t] = "running"]
    /\ UNCHANGED <<pat, gpc, gjoin, shared, obs, execs, exc, covVars>>

\* The next access of the callable the worker runs.
PatStep(w) ==
    /\ gwork[w].task # "idle"
    /\ ~gwork[w].threw
    /\ gwork[w].step <= Len(PatBody(pat, gwork[w].task))
    /\ LET t == gwork[w].task
           a == PatBody(pat, t)[gwork[w].step]
       IN  /\ shared' = CASE a.op = "store" -> a.v
                          [] a.op \in {"fetch_add", "preinc"} -> shared + 1
                          [] OTHER -> shared
           /\ obs' = IF a.op = "load"
                     THEN [obs EXCEPT ![t] = Append(obs[t], shared)]
                     ELSE obs
           /\ gwork' = [gwork EXCEPT
                          ![w].step = gwork[w].step + 1,
                          ![w].threw = (a.op = "throw"),
                          ![w].ret = IF a.op = "preinc"
                                     THEN (IF shared + 1 < a.v THEN 0 ELSE 1)
                                     ELSE gwork[w].ret]
    /\ UNCHANGED <<pat, gpc, gstate, gjoin, execs, exc, covVars>>

\* The callable has returned or thrown.  The task waits again for all its
\* predecessors.  An exception is kept for the run and no successor is
\* scheduled; a condition task schedules the successor its return value
\* selects; any other task is one predecessor less for each successor, and a
\* successor left with none is scheduled.
PatFinish(w) ==
    /\ gwork[w].task # "idle"
    /\ gwork[w].threw \/ gwork[w].step > Len(PatBody(pat, gwork[w].task))
    /\ LET t == gwork[w].task
           succ == PatSuccessors(pat)[t]
           chosen == IF gwork[w].ret + 1 \in DOMAIN succ
                     THEN {succ[gwork[w].ret + 1]} ELSE {}
           cancelled == gwork[w].threw \/ exc
           left == [u \in PatTasks(pat) |->
                      CASE u = t -> Cardinality(WaitedFor(pat, t))
                        [] cancelled -> gjoin[u]
                        [] IsCondition(pat, t) /\ u \in chosen -> 0
                        [] ~IsCondition(pat, t) /\ u \in Range(succ) -> gjoin[u] - 1
                        [] OTHER -> gjoin[u]]
           scheduled == IF cancelled THEN {}
                        ELSE IF IsCondition(pat, t) THEN chosen
                        ELSE {u \in Range(succ) : left[u] = 0}
       IN  /\ gjoin' = left
           /\ gstate' = [u \in PatTasks(pat) |->
                           IF u \in scheduled THEN "ready"
                           ELSE IF u = t THEN "waiting" ELSE gstate[u]]
           /\ execs' = [execs EXCEPT ![t] = execs[t] + 1]
           /\ exc' = (exc \/ gwork[w].threw)
    /\ gwork' = [gwork EXCEPT ![w] = IdleWorker]
    /\ UNCHANGED <<pat, gpc, shared, obs, covVars>>

\* .wait() returns, or .get() returns or rethrows, once no task is scheduled
\* or running.
PatDrained ==
    /\ \A t \in PatTasks(pat) : gstate[t] = "waiting"
    /\ \A w \in Workers : gwork[w].task = "idle"

PatWait ==
    /\ gpc = "waiting"
    /\ PatDrained
    /\ gpc' = IF UsesGet(pat) /\ exc THEN "threw" ELSE "returned"
    /\ UNCHANGED <<pat, gstate, gjoin, gwork, shared, obs, execs, exc, covVars>>

\* The pipeline and the library are not used while a pattern runs.
PatFrame == UNCHANGED <<pipeVars, libPc, libFn, lhs, rhs, num, idx, result,
                        factOut, addOut, name, greetOut, printOut, callVars>>

NextPatterns ==
    \/ PatRun /\ PatFrame
    \/ \E w \in Workers, t \in PatTasks(pat) : PatTake(w, t) /\ PatFrame
    \/ \E w \in Workers : PatStep(w) /\ PatFrame
    \/ \E w \in Workers : PatFinish(w) /\ PatFrame
    \/ PatWait /\ PatFrame

InitPatterns == PipelineInit /\ LibIdle /\ PatInit /\ CovOff

SpecPatterns == InitPatterns /\ [][NextPatterns]_vars

\* The tasks whose callables are being run.
PatRunning == {t \in PatTasks(pat) : gstate[t] = "running"}

\* C25: in the StateOrdering pattern A loads 0 from state, B loads 1 and C
\* loads 2, state is 3 once run(...).wait() has returned, each task having
\* run once, and no two of the tasks are ever run at the same time.
C25_StateOrdering ==
    pat = "StateOrdering" =>
        /\ obs["A"] \in {<<>>, <<0>>}
        /\ obs["B"] \in {<<>>, <<1>>}
        /\ obs["C"] \in {<<>>, <<2>>}
        /\ Cardinality(PatRunning) <= 1
        /\ gpc = "returned" =>
              /\ shared = 3
              /\ obs = [t \in {"A", "B", "C"} |->
                          CASE t = "A" -> <<0>> [] t = "B" -> <<1>> [] OTHER -> <<2>>]
              /\ \A t \in {"A", "B", "C"} : execs[t] = 1

C25_Witness ==
    /\ pat = "StateOrdering" /\ gpc = "returned"
    /\ shared = 3 /\ obs["C"] = <<2>>

\* C26: in the AtomicCounter pattern no task runs more than once, and once
\* run(...).wait() has returned every task has run once and the counter is
\* the number of tasks.
C26_AtomicCounter ==
    pat = "AtomicCounter" =>
        /\ \A t \in CounterTasks : execs[t] <= 1
        /\ shared <= NumCounterTasks
        /\ gpc = "returned" =>
              /\ shared = NumCounterTasks
              /\ \A t \in CounterTasks : execs[t] = 1

C26_Witness ==
    /\ pat = "AtomicCounter" /\ gpc = "returned"
    /\ shared = NumCounterTasks
    /\ \A t \in CounterTasks : execs[t] = 1

\* C27: in the PartialExecutionOnException pattern run(...).get() never
\* returns normally: it rethrows B's exception, when A and B have each run
\* once, C has not run and the counter is 2; C never runs.
C27_PartialExecutionOnException ==
    pat = "PartialExecutionOnException" =>
        /\ gpc # "returned"
        /\ execs["C"] = 0 /\ gstate["C"] = "waiting"
        /\ gpc = "threw" =>
              /\ exc
              /\ execs["A"] = 1 /\ execs["B"] = 1
              /\ shared = 2

C27_Witness ==
    /\ pat = "PartialExecutionOnException" /\ gpc = "threw"
    /\ shared = 2 /\ execs["B"] = 1 /\ execs["C"] = 0

\* C28: in the ConditionalLoop pattern done does not run before body has run
\* 4 times, and once run(...).wait() has returned the counter is 5, body has
\* run 4 times and done once.
C28_ConditionalLoop ==
    pat = "ConditionalLoop" =>
        /\ execs["body"] <= 4 /\ execs["done"] <= 1
        /\ (execs["done"] = 1 \/ gstate["done"] # "waiting") => execs["body"] = 4
        /\ gpc = "returned" =>
              /\ shared = 5
              /\ execs["body"] = 4 /\ execs["done"] = 1

(***************************************************************************)
(* Part X.  The coverage target of cmake/Coverage.cmake.  Each invocation  *)
(* of the target runs its COMMANDs one after the other and stops at the    *)
(* first that fails.  A data file is the set of the test runs whose        *)
(* counts it holds: n for the ctest of invocation n, 0 for a run of the    *)
(* tests outside the target.                                               *)
(***************************************************************************)
CovTools == {"lcov", "llvm-cov"}

LcovCommandsWithoutZeroCounters ==
    <<"ctest", "capture", "remove", "genhtml", "rm_info">>
LcovCommands ==
    <<"zerocounters", "ctest", "capture", "remove", "genhtml", "rm_info">>
LlvmCommands ==
    <<"rm_profiles", "ctest", "merge", "show", "report">>

CovCommands(tool) == IF tool = "lcov" THEN LcovCommands ELSE LlvmCommands

\* The instrumented tests add their counts to the .gcda files, and write
\* default.profraw anew.
TestsWrite(tool, data, n) == IF tool = "lcov" THEN data \cup {n} ELSE {n}

\* What a command leaves in the raw data, the merged data, the filtered data
\* and the report.
RawAfter(cmd, n) ==
    CASE cmd \in {"zerocounters", "rm_profiles"} -> {}
      [] cmd = "ctest" -> TestsWrite(covTool, raw, n)
      [] OTHER -> raw
MergedAfter(cmd) ==
    CASE cmd \in {"capture", "merge"} -> raw
      [] cmd \in {"rm_profiles", "rm_info"} -> {}
      [] OTHER -> merged
FilteredAfter(cmd) ==
    CASE cmd = "remove" -> merged
      [] cmd = "rm_info" -> {}
      [] OTHER -> filtered
ReportAfter(cmd) ==
    CASE cmd = "genhtml" -> filtered
      [] cmd = "show" -> merged
      [] OTHER -> report

\* The input the command reads is there.
CovInputPresent(cmd) ==
    CASE cmd \in {"capture", "merge"} -> raw # {}
      [] cmd \in {"remove", "show", "report"} -> merged # {}
      [] cmd = "genhtml" -> filtered # {}
      [] OTHER -> TRUE

CovInit ==
    /\ covTool \in CovTools
    /\ covPc = 0 /\ inv = 0
    /\ raw \in {{}, {0}} /\ merged = {} /\ filtered = {} /\ report = {}
    /\ reportBy = 0 /\ tested = {} /\ log = <<>>

\* cmake --build . --target coverage
CovStart ==
    /\ covPc = 0
    /\ inv < MaxInvocations
    /\ inv' = inv + 1
    /\ covPc' = 1
    /\ log' = <<>>
    /\ UNCHANGED <<covTool, raw, merged, filtered, report, reportBy, tested>>

\* The next COMMAND of the target runs and succeeds.
CovCommand ==
    /\ covPc > 0
    /\ LET cmd == CovCommands(covTool)[covPc]
       IN  /\ CovInputPresent(cmd)
           /\ raw' = RawAfter(cmd, inv)
           /\ merged' = MergedAfter(cmd)
           /\ filtered' = FilteredAfter(cmd)
           /\ report' = ReportAfter(cmd)
           /\ reportBy' = IF cmd \in {"genhtml", "show"} THEN inv ELSE reportBy
           /\ tested' = IF cmd = "ctest" THEN tested \cup {inv} ELSE tested
           /\ log' = Append(log, cmd)
    /\ covPc' = IF covPc = Len(CovCommands(covTool)) THEN 0 ELSE covPc + 1
    /\ UNCHANGED <<covTool, inv>>

\* The next COMMAND fails and the invocation stops: a test fails (the tests
\* have written their counts), or a tool fails.
CovCommandFails ==
    /\ covPc > 0
    /\ LET cmd == CovCommands(covTool)[covPc]
       IN  /\ raw' = IF cmd = "ctest" THEN RawAfter(cmd, inv) ELSE raw
           /\ tested' = IF cmd = "ctest" THEN tested \cup {inv} ELSE tested
    /\ covPc' = 0
    /\ UNCHANGED <<covTool, inv, merged, filtered, report, reportBy, log>>

\* The tests are run outside the target, between two invocations.
TestsOutside ==
    /\ covPc = 0
    /\ raw' = TestsWrite(covTool, raw, 0)
    /\ UNCHANGED <<covTool, covPc, inv, merged, filtered, report, reportBy,
                   tested, log>>

CovFrame == UNCHANGED <<pipeVars, libPc, libFn, lhs, rhs, num, idx, result,
                        factOut, addOut, name, greetOut, printOut, callVars,
                        patVars>>

NextCoverage ==
    \/ CovStart /\ CovFrame
    \/ CovCommand /\ CovFrame
    \/ CovCommandFails /\ CovFrame
    \/ TestsOutside /\ CovFrame

InitCoverage == PipelineInit /\ LibIdle /\ PatOff /\ CovInit

SpecCoverage == InitCoverage /\ [][NextCoverage]_vars

\* The position of a command among the commands run, 0 when it has not run.
RanAt(cmds) ==
    IF \E i \in 1 .. Len(log) : log[i] \in cmds
    THEN CHOOSE i \in 1 .. Len(log) : log[i] \in cmds
    ELSE 0

\* C29: in every invocation of the coverage target the data is cleared
\* first, then the tests run, then the data is captured or merged, then the
\* HTML report is generated, each step only after the one before it; an HTML
\* report is generated only by an invocation whose tests have run, and it
\* shows the counts of that invocation's test run and of no other.
C29_CoverageStepsInOrder ==
    /\ RanAt({"ctest"}) # 0 => RanAt({"zerocounters", "rm_profiles"}) = 1
    /\ RanAt({"capture", "merge"}) # 0 =>
          (RanAt({"ctest"}) # 0 /\ RanAt({"ctest"}) < RanAt({"capture", "merge"}))
    /\ RanAt({"genhtml", "show"}) # 0 =>
          (RanAt({"capture", "merge"}) # 0
             /\ RanAt({"capture", "merge"}) < RanAt({"genhtml", "show"}))
    /\ reportBy # 0 => (reportBy \in tested /\ report = {reportBy})

\* The second invocation has generated its report from its own test run,
\* after an earlier invocation and a run of the tests outside the target.
C29_Witness ==
    /\ covTool = "lcov" /\ inv = 2 /\ reportBy = 2 /\ report = {2}
    /\ 1 \in tested /\ covPc = 0 /\ Len(log) = Len(LcovCommands)

====
